---- MODULE Spec2Model ----
(***************************************************************************)
(* QINIZX 2-key keyboard tools: led_control.py (LED mode / custom colour)  *)
(* and program_key.py (key programming with configuration read-back).      *)
(* The hidapi transport is the environment: hid_enumerate yields the       *)
(* descriptor list, hid_open_path yields a handle or NULL, hid_write and   *)
(* hid_read_timeout yield a byte count chosen by the device.               *)
(***************************************************************************)
EXTENDS Integers, Sequences, FiniteSets, TLC

VARIABLES
    script,     \* which program runs: "led", "key", or a function under test
    argv,       \* the parsed command line (a record, see LedArgs / KeyArgs)
    descs,      \* what hid_enumerate returns: sequence of [usage_page, path]
    pc,         \* position in main
    path,       \* main's path (None when find_device found nothing)
    handle,     \* main's handle (NULL when hid_open_path failed)
    live,       \* handles opened and not yet closed
    closed,     \* the non-NULL handles hid_close was called with, in call order
    nopen,      \* number of successful hid_open_path calls so far
    opLog,      \* transport calls and sleeps made since the last hid_open_path
    data,       \* the command body being sent (set_rgb_mode / set_custom_color / key_data)
    result,     \* result of the first hid_send (program_key.py: of the latest call)
    result2,    \* result of the second hid_send (led_control.py)
    outcome,    \* the status message main printed for the command
    configs,    \* the list read_config builds and returns
    slot,       \* read_config's loop counter (range(6))
    after       \* program_key.py: FALSE in the first read_config, TRUE in the read-back

vars == <<script, argv, descs, pc, path, handle, live, closed, nopen, opLog, data,
          result, result2, outcome, configs, slot, after>>

(***************************************************************************)
(* Bounds of the model.                                                    *)
(***************************************************************************)
MaxBodyLen == 200   \* longest body handed to hid_send in SpecFrame
MaxSeed == 2        \* byte patterns per body length in SpecFrame
MaxDescs == 4       \* longest descriptor list in SpecFind
MaxTextLen == 52    \* longest macro text

(***************************************************************************)
(* Program constants.                                                      *)
(***************************************************************************)
DATA_LEN == 53
REPORT_LEN == 64
VENDOR_USAGE_PAGE == 65280      \* 0xFF00
None == 0                       \* vendor_path = None
NULL == 0                       \* hid_open_path returned no handle
MODE_COMBO == 1
MODE_STRING == 4
CMD_RGB_MODE == 87              \* 0x57
CMD_COLOR == 112                \* 0x70
CMD_READ == 85                  \* 0x55
N_SLOTS == 6
SLEEP_SEND == 20                \* time.sleep(0.02)
SLEEP_SETTLE == 100             \* time.sleep(0.1)
SLEEP_VERIFY == 200             \* time.sleep(0.2)

Min(a, b) == IF a < b THEN a ELSE b

Zeros(n) == [i \in 1..n |-> 0]

IsByte(b) == b \in 0..255

\* bytes(seq) raises ValueError unless every element is in range(256)
BytesOk(seq) == \A i \in 1..Len(seq) : IsByte(seq[i])

(***************************************************************************)
(* hid_send: the framing of a body into the 64-byte report.                *)
(***************************************************************************)
\* if len(data) < DATA_LEN: data = list(data) + [0] * (DATA_LEN - len(data))
PadData(d) == IF Len(d) < DATA_LEN THEN d \o Zeros(DATA_LEN - Len(d)) ELSE d

\* data = data[:DATA_LEN]
TruncData(d) == SubSeq(d, 1, Min(Len(d), DATA_LEN))

\* payload with the length byte taken before the padding
payload_unpadded_length(d) ==
    LET dd == TruncData(PadData(d))
        p  == <<Min(Len(d), DATA_LEN)>> \o dd
    IN  p \o Zeros(REPORT_LEN - Len(p))

\* payload = bytes([len(data)]) + bytes(data); payload + bytes(64 - len(payload))
payload(d) ==
    LET dd == TruncData(PadData(d))
        p  == <<Len(dd)>> \o dd
    IN  p \o Zeros(REPORT_LEN - Len(p))

(***************************************************************************)
(* find_device: walk the enumerated list, stop at the first vendor page.   *)
(***************************************************************************)
RECURSIVE find_from(_, _)
find_from(ds, cur) ==
    IF cur > Len(ds) THEN None                      \* while current: (NULL)
    ELSE IF ds[cur].usage_page = VENDOR_USAGE_PAGE
         THEN ds[cur].path                          \* vendor_path = info.path; break
         ELSE IF cur < Len(ds)                      \* if info.next:
              THEN find_from(ds, cur + 1)
              ELSE None                             \* else: break

\* find_device that looks at the head of the list only
find_device_head(ds) ==
    IF ds # <<>> /\ ds[1].usage_page = VENDOR_USAGE_PAGE THEN ds[1].path ELSE None

find_device(ds) == find_from(ds, 1)

(***************************************************************************)
(* program_key.py: keycode tables and command bodies.                      *)
(***************************************************************************)
\* the backquote key is written "GRAVE": a string cannot hold that character
KEY_CODES ==
    "a" :> 4 @@ "b" :> 5 @@ "c" :> 6 @@ "d" :> 7 @@ "e" :> 8 @@ "f" :> 9 @@
    "g" :> 10 @@ "h" :> 11 @@ "i" :> 12 @@ "j" :> 13 @@ "k" :> 14 @@ "l" :> 15 @@
    "m" :> 16 @@ "n" :> 17 @@ "o" :> 18 @@ "p" :> 19 @@ "q" :> 20 @@ "r" :> 21 @@
    "s" :> 22 @@ "t" :> 23 @@ "u" :> 24 @@ "v" :> 25 @@ "w" :> 26 @@ "x" :> 27 @@
    "y" :> 28 @@ "z" :> 29 @@ "1" :> 30 @@ "2" :> 31 @@ "3" :> 32 @@ "4" :> 33 @@
    "5" :> 34 @@ "6" :> 35 @@ "7" :> 36 @@ "8" :> 37 @@ "9" :> 38 @@ "0" :> 39 @@
    "enter" :> 40 @@ "esc" :> 41 @@ "backspace" :> 42 @@ "tab" :> 43 @@ "space" :> 44 @@ " " :> 44 @@
    "-" :> 45 @@ "=" :> 46 @@ "[" :> 47 @@ "]" :> 48 @@ "\\" :> 49 @@ ";" :> 51 @@
    "'" :> 52 @@ "GRAVE" :> 53 @@ "," :> 54 @@ "." :> 55 @@ "/" :> 56 @@ "f1" :> 58 @@
    "f2" :> 59 @@ "f3" :> 60 @@ "f4" :> 61 @@ "f5" :> 62 @@ "f6" :> 63 @@ "f7" :> 64 @@
    "f8" :> 65 @@ "f9" :> 66 @@ "f10" :> 67 @@ "f11" :> 68 @@ "f12" :> 69

SHIFTED_KEYCODES ==
    "!" :> 150 @@ "@" :> 151 @@ "#" :> 152 @@ "$" :> 153 @@ "%" :> 154 @@ "^" :> 155 @@
    "&" :> 156 @@ "*" :> 157 @@ "(" :> 158 @@ ")" :> 159 @@ "_" :> 161 @@ "+" :> 162 @@
    "{" :> 163 @@ "}" :> 164 @@ "|" :> 165 @@ ":" :> 166 @@ "\"" :> 167 @@ "<" :> 168 @@
    ">" :> 169 @@ "?" :> 170 @@ "~" :> 149

UPPER == <<"A", "B", "C", "D", "E", "F", "G", "H", "I", "J", "K", "L", "M",
           "N", "O", "P", "Q", "R", "S", "T", "U", "V", "W", "X", "Y", "Z">>

\* {chr(ord('A') + i): 0xAB + i for i in range(26)}
UPPERCASE_KEYCODES == [c \in {UPPER[i] : i \in 1..26} |->
                          171 + ((CHOOSE i \in 1..26 : UPPER[i] = c) - 1)]

\* a character of no table (every printable ASCII character is in one)
BAD == "\t"

char_to_keycode(char) ==
    IF char \in DOMAIN KEY_CODES THEN KEY_CODES[char]
    ELSE IF char \in DOMAIN UPPERCASE_KEYCODES THEN UPPERCASE_KEYCODES[char]
    ELSE IF char \in DOMAIN SHIFTED_KEYCODES THEN SHIFTED_KEYCODES[char]
    ELSE None

\* program_string's first loop: the keycodes of the characters that resolve
keycodes(text) ==
    LET kc == [i \in 1..Len(text) |-> char_to_keycode(text[i])]
    IN  SelectSeq(kc, LAMBDA k : k # None)

\* program_string's key_data: header, keycodes, zero padding, cut to DATA_LEN
string_key_data(key_num, text) ==
    LET kd == <<key_num, MODE_STRING, 0>> \o keycodes(text)
        remaining == DATA_LEN - Len(kd)
        padded == IF remaining > 0 THEN kd \o Zeros(remaining) ELSE kd
    IN  SubSeq(padded, 1, Min(Len(padded), DATA_LEN))

\* program_single_key's key_data
single_key_data(key_num, keycode, modifier) ==
    LET kd == <<key_num, MODE_COMBO, modifier, keycode>> \o Zeros(DATA_LEN - 3)
    IN  SubSeq(kd, 1, Min(Len(kd), DATA_LEN))

\* int(keycode_arg, 16) on the tokens the model feeds in; no entry = ValueError
INT16 == "04" :> 4 @@ "ff" :> 255 @@ "1ff" :> 511

(***************************************************************************)
(* led_control.py: mode table and command bodies.                          *)
(***************************************************************************)
RGB_MODES == "off" :> 0 @@ "static" :> 1 @@ "breathing" :> 2 @@ "rainbow" :> 3 @@
             "wave" :> 4 @@ "reactive" :> 5 @@ "custom" :> 6

\* int(arg) on the tokens the model feeds in; no entry = ValueError
INT10 == "3" :> 3 @@ "300" :> 300 @@ "-1" :> (0 - 1)

\* set_rgb_mode: data = [0x57, mode_index]
rgb_mode_data(mode_index) == <<CMD_RGB_MODE, mode_index>>

\* set_custom_color: data = [0x70, r, g, b]
custom_color_data(r, g, b) == <<CMD_COLOR, r, g, b>>

\* read_config: cmd = bytes([0x55] + [0]*63)
read_cmd == <<CMD_READ>> \o Zeros(63)

(***************************************************************************)
(* The transport as the programs see it.                                   *)
(***************************************************************************)
EvWrite(h, report, res) == [op |-> "write", h |-> h, report |-> report, res |-> res]
EvRead(h, res) == [op |-> "read", h |-> h, report |-> <<>>, res |-> res]
EvSleep(ms) == [op |-> "sleep", h |-> NULL, report |-> <<>>, res |-> ms]

\* hid_write's return value: bytes written, 0, or -1; -1 on no device
WriteResults(h) == IF h = NULL THEN {0 - 1} ELSE {0 - 1, 0, REPORT_LEN}

\* hid_read_timeout's return value: bytes read, 0 on timeout, -1 on error
ReadResults(h) == IF h = NULL THEN {0 - 1} ELSE {0 - 1, 0, REPORT_LEN}

\* hid_send without the 20 ms sleep
hid_send_no_sleep(d, res) ==
    /\ res \in WriteResults(handle)
    /\ opLog' = Append(opLog, EvWrite(handle, payload(d), res))

\* hid_send(handle, data): write the framed report, sleep 20 ms, return the count
hid_send(d, res) ==
    /\ res \in WriteResults(handle)
    /\ opLog' = opLog \o <<EvWrite(handle, payload(d), res), EvSleep(SLEEP_SEND)>>

\* hid_open_path(path): NULL, or a handle no earlier call returned
hid_open_path(h) ==
    /\ h \in {NULL, nopen + 1}
    /\ nopen' = IF h = NULL THEN nopen ELSE nopen + 1
    /\ live' = IF h = NULL THEN live ELSE live \cup {h}
    /\ closed' = closed
    /\ opLog' = <<>>

\* hid_close(handle): a NULL handle is ignored
hid_close ==
    /\ live' = live \ {handle}
    /\ closed' = IF handle = NULL THEN closed ELSE Append(closed, handle)

(***************************************************************************)
(* Inputs.                                                                 *)
(***************************************************************************)
Desc(usage_page, p) == [usage_page |-> usage_page, path |-> p]

\* the interfaces the keyboard exposes: keyboard, vendor, consumer control
MainDescs == { <<>>,
               <<Desc(1, 1), Desc(VENDOR_USAGE_PAGE, 2), Desc(12, 3)>>,
               <<Desc(1, 1), Desc(12, 2)>> }

\* led_control.py: argc = len(sys.argv), arg = sys.argv[1].lower(),
\* color = parse_color(sys.argv[2]), <<>> when it returned None
LedArgs ==
    {[argc |-> 1, arg |-> "", color |-> <<>>]}
    \cup {[argc |-> 2, arg |-> a, color |-> <<>>] :
            a \in {"color", "off", "rainbow", "custom", "3", "300", "bogus"}}
    \cup {[argc |-> 3, arg |-> "color", color |-> c] :
            c \in {<<>>, <<10, 20, 30>>, <<255, 0, 0>>, <<0, 0, 255>>, <<300, 0, 0>>}}

Sample == <<"h", "I", "!", " ", "7">>

TextOf(n) == [i \in 1..n |-> Sample[((i - 1) % Len(Sample)) + 1]]

Texts == {<<>>, <<BAD>>, <<"a", BAD, "Z">>}
         \cup {TextOf(n) : n \in (DATA_LEN - 4)..MaxTextLen}
         \cup {<<BAD>> \o TextOf(DATA_LEN - 3)}

\* program_key.py: key_num = int(sys.argv[1]); mode "string" when sys.argv[2]
\* starts with 'string:' (text = the rest), else keycode_arg = sys.argv[2].lower()
KeyArgs ==
    {[argc |-> 2, key_num |-> 1, mode |-> "key", text |-> <<>>, keycode_arg |-> ""]}
    \cup {[argc |-> 3, key_num |-> 1, mode |-> "string", text |-> t, keycode_arg |-> ""] :
            t \in Texts}
    \cup {[argc |-> 3, key_num |-> 1, mode |-> "key", text |-> <<>>, keycode_arg |-> k] :
            k \in {"a", "enter", "04", "1ff", "zz"}}
    \cup {[argc |-> 3, key_num |-> 2, mode |-> "string", text |-> <<"a", BAD, "Z">>,
           keycode_arg |-> ""],
          [argc |-> 3, key_num |-> 2, mode |-> "key", text |-> <<>>, keycode_arg |-> "f12"],
          [argc |-> 3, key_num |-> 3, mode |-> "key", text |-> <<>>, keycode_arg |-> "a"]}

Fresh ==
    /\ pc = "main"
    /\ path = None
    /\ handle = NULL
    /\ live = {}
    /\ closed = <<>>
    /\ nopen = 0
    /\ opLog = <<>>
    /\ data = <<>>
    /\ result = 0
    /\ result2 = 0
    /\ outcome = "none"
    /\ configs = <<>>
    /\ slot = 0
    /\ after = FALSE

Init ==
    /\ script \in {"led", "key"}
    /\ argv \in (IF script = "led" THEN LedArgs ELSE KeyArgs)
    /\ descs \in MainDescs
    /\ Fresh

(***************************************************************************)
(* led_control.py main.                                                    *)
(***************************************************************************)
\* lines 190-220: usage, hid_init, find_device, "Keyboard not found!"
led_main ==
    /\ script = "led" /\ pc = "main"
    /\ IF argv.argc < 2
       THEN pc' = "done" /\ path' = path
       ELSE /\ path' = find_device(descs)
            /\ pc' = IF path' = None THEN "done" ELSE "open"
    /\ UNCHANGED <<script, argv, descs, handle, live, closed, nopen, opLog, data,
                   result, result2, outcome, configs, slot, after>>

\* lines 224-228: hid_open_path, "Failed to open device!"
led_open ==
    /\ script = "led" /\ pc = "open"
    /\ \E h \in {NULL, nopen + 1} :
         /\ hid_open_path(h)
         /\ handle' = h
         /\ pc' = IF h = NULL THEN "done" ELSE "dispatch"
    /\ UNCHANGED <<script, argv, descs, path, data, result, result2, outcome,
                   configs, slot, after>>

\* lines 230-244, 260-280: choose the command from sys.argv
led_dispatch ==
    /\ script = "led" /\ pc = "dispatch"
    /\ IF argv.arg = "color"
       THEN IF argv.argc < 3 \/ argv.color = <<>>
            THEN /\ hid_close
                 /\ outcome' = "error" /\ pc' = "done" /\ data' = data
            ELSE \* set_rgb_mode(handle, RGB_MODES.get('custom', 6))
                 /\ data' = rgb_mode_data(RGB_MODES["custom"])
                 /\ pc' = "set_rgb_mode"
                 /\ UNCHANGED <<live, closed, outcome>>
       ELSE IF argv.arg \in DOMAIN RGB_MODES
            THEN /\ data' = rgb_mode_data(RGB_MODES[argv.arg])
                 /\ pc' = "set_rgb_mode"
                 /\ UNCHANGED <<live, closed, outcome>>
            ELSE IF argv.arg \in DOMAIN INT10
                 THEN /\ data' = rgb_mode_data(INT10[argv.arg])
                      /\ pc' = "set_rgb_mode"
                      /\ UNCHANGED <<live, closed, outcome>>
                 ELSE \* except ValueError: "Unknown mode"
                      /\ outcome' = "error" /\ pc' = "close"
                      /\ UNCHANGED <<live, closed, data>>
    /\ UNCHANGED <<script, argv, descs, path, handle, nopen, opLog,
                   result, result2, configs, slot, after>>

\* set_rgb_mode lines 114-117: print the command (bytes() may raise), first send
set_rgb_mode_send ==
    /\ script = "led" /\ pc = "set_rgb_mode"
    /\ IF ~BytesOk(data)
       THEN pc' = "raised" /\ UNCHANGED <<opLog, result>>
       ELSE /\ \E res \in WriteResults(handle) : hid_send(data, res) /\ result' = res
            /\ pc' = "rgb_sleep"
    /\ UNCHANGED <<script, argv, descs, path, handle, live, closed, nopen, data,
                   result2, outcome, configs, slot, after>>

\* set_rgb_mode line 118: time.sleep(0.1)
set_rgb_mode_sleep ==
    /\ script = "led" /\ pc = "rgb_sleep"
    /\ opLog' = Append(opLog, EvSleep(SLEEP_SETTLE))
    /\ pc' = "rgb_send2"
    /\ UNCHANGED <<script, argv, descs, path, handle, live, closed, nopen, data,
                   result, result2, outcome, configs, slot, after>>

\* set_rgb_mode line 120: second send
set_rgb_mode_resend ==
    /\ script = "led" /\ pc = "rgb_send2"
    /\ \E res \in WriteResults(handle) : hid_send(data, res) /\ result2' = res
    /\ pc' = "rgb_return"
    /\ UNCHANGED <<script, argv, descs, path, handle, live, closed, nopen, data,
                   result, outcome, configs, slot, after>>

\* what set_rgb_mode / set_custom_color return: result > 0 and result2 > 0
both_positive == result > 0 /\ result2 > 0

\* main after set_rgb_mode returned: lines 251-254 (color) or 264-267, 274-277 (mode)
led_mode_returned ==
    /\ script = "led" /\ pc = "rgb_return"
    /\ IF argv.arg = "color"
       THEN \* return value dropped; time.sleep(0.1); set_custom_color(handle, r, g, b)
            /\ opLog' = Append(opLog, EvSleep(SLEEP_SETTLE))
            /\ data' = custom_color_data(argv.color[1], argv.color[2], argv.color[3])
            /\ pc' = "set_custom_color"
            /\ outcome' = outcome
       ELSE /\ outcome' = IF both_positive THEN "success" ELSE "failed"
            /\ pc' = "close"
            /\ UNCHANGED <<opLog, data>>
    /\ UNCHANGED <<script, argv, descs, path, handle, live, closed, nopen,
                   result, result2, configs, slot, after>>

\* set_custom_color lines 131-134
set_custom_color_send ==
    /\ script = "led" /\ pc = "set_custom_color"
    /\ IF ~BytesOk(data)
       THEN pc' = "raised" /\ UNCHANGED <<opLog, result>>
       ELSE /\ \E res \in WriteResults(handle) : hid_send(data, res) /\ result' = res
            /\ pc' = "color_sleep"
    /\ UNCHANGED <<script, argv, descs, path, handle, live, closed, nopen, data,
                   result2, outcome, configs, slot, after>>

\* set_custom_color line 135
set_custom_color_sleep ==
    /\ script = "led" /\ pc = "color_sleep"
    /\ opLog' = Append(opLog, EvSleep(SLEEP_SETTLE))
    /\ pc' = "color_send2"
    /\ UNCHANGED <<script, argv, descs, path, handle, live, closed, nopen, data,
                   result, result2, outcome, configs, slot, after>>

\* set_custom_color line 137
set_custom_color_resend ==
    /\ script = "led" /\ pc = "color_send2"
    /\ \E res \in WriteResults(handle) : hid_send(data, res) /\ result2' = res
    /\ pc' = "color_return"
    /\ UNCHANGED <<script, argv, descs, path, handle, live, closed, nopen, data,
                   result, outcome, configs, slot, after>>

\* main lines 255-258
led_color_returned ==
    /\ script = "led" /\ pc = "color_return"
    /\ outcome' = IF both_positive THEN "success" ELSE "failed"
    /\ pc' = "close"
    /\ UNCHANGED <<script, argv, descs, path, handle, live, closed, nopen, opLog, data,
                   result, result2, configs, slot, after>>

\* main lines 282-284: hid_close, hid_exit
led_close ==
    /\ script = "led" /\ pc = "close"
    /\ hid_close
    /\ pc' = "done"
    /\ UNCHANGED <<script, argv, descs, path, handle, nopen, opLog, data,
                   result, result2, outcome, configs, slot, after>>

LedNext ==
    \/ led_main \/ led_open \/ led_dispatch
    \/ set_rgb_mode_send \/ set_rgb_mode_sleep \/ set_rgb_mode_resend
    \/ led_mode_returned
    \/ set_custom_color_send \/ set_custom_color_sleep \/ set_custom_color_resend
    \/ led_color_returned \/ led_close

(***************************************************************************)
(* program_key.py main.                                                    *)
(***************************************************************************)
\* lines 278-309: usage, key_num check, hid_init, find_device
key_main ==
    /\ script = "key" /\ pc = "main"
    /\ IF argv.argc < 3 \/ argv.key_num \notin {1, 2}
       THEN pc' = "done" /\ path' = path
       ELSE /\ path' = find_device(descs)
            /\ pc' = IF path' = None THEN "done" ELSE "open"
    /\ UNCHANGED <<script, argv, descs, handle, live, closed, nopen, opLog, data,
                   result, result2, outcome, configs, slot, after>>

\* lines 313-317: hid_open_path, "Failed to open device!"
key_open ==
    /\ script = "key" /\ pc = "open"
    /\ \E h \in {NULL, nopen + 1} :
         /\ hid_open_path(h)
         /\ handle' = h
         /\ pc' = IF h = NULL THEN "done" ELSE "read_config"
    /\ UNCHANGED <<script, argv, descs, path, data, result, result2, outcome,
                   configs, slot, after>>

\* read_config lines 141-149: the read command goes out by hid_write, not hid_send
read_config_write ==
    /\ script = "key" /\ pc = "read_config"
    /\ \E res \in WriteResults(handle) :
         opLog' = Append(opLog, EvWrite(handle, read_cmd, res))
    /\ configs' = <<>>
    /\ slot' = 0
    /\ pc' = "rc_read"
    /\ UNCHANGED <<script, argv, descs, path, handle, live, closed, nopen, data,
                   result, result2, outcome, after>>

\* bytes(buf.raw[:result]): what the device sent, known here by its length
SlotData(res) == [len |-> res]

\* read_config lines 152-153: if result > 0: configs.append(...)
collect(cfgs, res) == IF res > 0 THEN Append(cfgs, SlotData(res)) ELSE cfgs

\* read_config lines 150-155: one pass of the for loop, return after the sixth
read_config_read ==
    /\ script = "key" /\ pc = "rc_read"
    /\ slot < N_SLOTS
    /\ \E res \in ReadResults(handle) :
         /\ opLog' = Append(opLog, EvRead(handle, res))
         /\ configs' = collect(configs, res)
    /\ slot' = slot + 1
    /\ pc' = IF slot' = N_SLOTS THEN "rc_return" ELSE "rc_read"
    /\ UNCHANGED <<script, argv, descs, path, handle, live, closed, nopen, data,
                   result, result2, outcome, after>>

\* lines 322-326 and 373-380: print the slots, hid_close; hid_exit after the read-back
key_config_returned ==
    /\ script = "key" /\ pc = "rc_return"
    /\ hid_close
    /\ pc' = IF after THEN "done" ELSE "reopen"
    /\ UNCHANGED <<script, argv, descs, path, handle, nopen, opLog, data,
                   result, result2, outcome, configs, slot, after>>

\* line 329: handle = hidapi.hid_open_path(path.encode()), not checked
key_reopen ==
    /\ script = "key" /\ pc = "reopen"
    /\ \E h \in {NULL, nopen + 1} : hid_open_path(h) /\ handle' = h
    /\ pc' = "program"
    /\ UNCHANGED <<script, argv, descs, path, data, result, result2, outcome,
                   configs, slot, after>>

\* lines 345-349: the keycode of keycode_arg; None stands for ValueError
main_keycode(keycode_arg) ==
    IF keycode_arg \in DOMAIN KEY_CODES THEN KEY_CODES[keycode_arg]
    ELSE IF keycode_arg \in DOMAIN INT16 THEN INT16[keycode_arg]
    ELSE None

\* lines 331-334 and 343-357: string mode or single key mode
key_dispatch ==
    /\ script = "key" /\ pc = "program"
    /\ IF argv.mode = "string"
       THEN pc' = "string1" /\ UNCHANGED <<live, closed, outcome>>
       ELSE IF main_keycode(argv.keycode_arg) = None
            THEN \* "Unknown key": hid_close, hid_exit, return
                 /\ hid_close
                 /\ outcome' = "error" /\ pc' = "done"
            ELSE pc' = "single1" /\ UNCHANGED <<live, closed, outcome>>
    /\ UNCHANGED <<script, argv, descs, path, handle, nopen, opLog, data,
                   result, result2, configs, slot, after>>

\* program_single_key lines 201-206, called at lines 358 and 363
program_single_key ==
    /\ script = "key" /\ pc \in {"single1", "single2"}
    /\ data' = single_key_data(argv.key_num, main_keycode(argv.keycode_arg), 0)
    /\ IF ~BytesOk(SubSeq(data', 1, 10))
       THEN pc' = "raised" /\ UNCHANGED <<opLog, result>>
       ELSE /\ \E res \in WriteResults(handle) : hid_send(data', res) /\ result' = res
            /\ pc' = IF pc = "single1" THEN "settle1" ELSE "close2"
    /\ UNCHANGED <<script, argv, descs, path, handle, live, closed, nopen,
                   result2, outcome, configs, slot, after>>

\* program_string without the "No valid keycodes" return
program_string_unchecked ==
    /\ script = "key" /\ pc \in {"string1", "string2"}
    /\ data' = string_key_data(argv.key_num, argv.text)
    /\ \E res \in WriteResults(handle) : hid_send(data', res) /\ result' = res
    /\ pc' = IF pc = "string1" THEN "settle2" ELSE "close2"
    /\ UNCHANGED <<script, argv, descs, path, handle, live, closed, nopen,
                   result2, outcome, configs, slot, after>>

\* program_string lines 245-269, called at lines 335 and 340
program_string ==
    /\ script = "key" /\ pc \in {"string1", "string2"}
    /\ IF keycodes(argv.text) = <<>>
       THEN \* "Error: No valid keycodes": return -1
            /\ result' = 0 - 1
            /\ UNCHANGED <<opLog, data>>
       ELSE /\ data' = string_key_data(argv.key_num, argv.text)
            /\ \E res \in WriteResults(handle) : hid_send(data', res) /\ result' = res
    /\ pc' = IF pc = "string1" THEN "settle2" ELSE "close2"
    /\ UNCHANGED <<script, argv, descs, path, handle, live, closed, nopen,
                   result2, outcome, configs, slot, after>>

\* lines 339 and 362: time.sleep(0.1) between the two calls
key_settle ==
    /\ script = "key" /\ pc \in {"settle1", "settle2"}
    /\ opLog' = Append(opLog, EvSleep(SLEEP_SETTLE))
    /\ pc' = IF pc = "settle1" THEN "single2" ELSE "string2"
    /\ UNCHANGED <<script, argv, descs, path, handle, live, closed, nopen, data,
                   result, result2, outcome, configs, slot, after>>

\* lines 366-369: hid_close, time.sleep(0.2)
key_close ==
    /\ script = "key" /\ pc = "close2"
    /\ hid_close
    /\ opLog' = Append(opLog, EvSleep(SLEEP_VERIFY))
    /\ pc' = "reopen2"
    /\ UNCHANGED <<script, argv, descs, path, handle, nopen, data,
                   result, result2, outcome, configs, slot, after>>

\* line 370: handle = hidapi.hid_open_path(path.encode()), not checked
key_reopen_verify ==
    /\ script = "key" /\ pc = "reopen2"
    /\ \E h \in {NULL, nopen + 1} : hid_open_path(h) /\ handle' = h
    /\ after' = TRUE
    /\ pc' = "read_config"
    /\ UNCHANGED <<script, argv, descs, path, data, result, result2, outcome,
                   configs, slot>>

\* the next step of main hands the handle to hid_write or hid_read_timeout
about_to_transfer ==
    \/ pc \in {"read_config", "rc_read"}
    \/ pc \in {"single1", "single2"}
         /\ BytesOk(SubSeq(single_key_data(argv.key_num,
                                           main_keycode(argv.keycode_arg), 0), 1, 10))
    \/ pc \in {"string1", "string2"} /\ keycodes(argv.text) # <<>>

\* hidapi dereferences the device pointer: with a NULL handle the call may
\* return -1 (as WriteResults / ReadResults say) or end the process
null_handle_fault ==
    /\ script = "key" /\ about_to_transfer
    /\ handle = NULL
    /\ opLog' = Append(opLog,
                       IF pc = "rc_read" THEN EvRead(handle, 0 - 1)
                       ELSE IF pc = "read_config" THEN EvWrite(handle, read_cmd, 0 - 1)
                       ELSE IF pc \in {"single1", "single2"}
                            THEN EvWrite(handle,
                                         payload(single_key_data(argv.key_num,
                                                 main_keycode(argv.keycode_arg), 0)),
                                         0 - 1)
                            ELSE EvWrite(handle,
                                         payload(string_key_data(argv.key_num, argv.text)),
                                         0 - 1))
    /\ pc' = "crashed"
    /\ UNCHANGED <<script, argv, descs, path, handle, live, closed, nopen, data,
                   result, result2, outcome, configs, slot, after>>

KeyNext ==
    \/ key_main \/ key_open
    \/ read_config_write \/ read_config_read \/ key_config_returned
    \/ key_reopen \/ key_dispatch
    \/ program_single_key \/ program_string \/ key_settle
    \/ key_close \/ key_reopen_verify
    \/ null_handle_fault

Next == LedNext \/ KeyNext

Spec == Init /\ [][Next]_vars

(***************************************************************************)
(* Function-level specifications: hid_send on bodies of every length, and  *)
(* find_device on every short descriptor list.                             *)
(***************************************************************************)
Pages == {1, VENDOR_USAGE_PAGE, 12}

\* every list of at most MaxDescs descriptors; a descriptor's path is its position
AllDescs ==
    UNION { { [i \in 1..n |-> Desc(ups[i], i)] : ups \in [1..n -> Pages] } :
            n \in 0..MaxDescs }

\* bodies of 0..MaxBodyLen nonzero bytes
Bodies ==
    { [i \in 1..n |-> ((7 * seed + i) % 255) + 1] : n \in 0..MaxBodyLen, seed \in 0..MaxSeed }

NoArgs == [argc |-> 0]

FrameInit ==
    /\ script = "hid_send"
    /\ argv = NoArgs
    /\ descs = <<>>
    /\ pc = "call"
    /\ path = None
    /\ handle = 1
    /\ live = {1}
    /\ closed = <<>>
    /\ nopen = 1
    /\ opLog = <<>>
    /\ data \in Bodies
    /\ result = 0
    /\ result2 = 0
    /\ outcome = "none"
    /\ configs = <<>>
    /\ slot = 0
    /\ after = FALSE

\* result = hid_send(handle, data)
frame_call ==
    /\ script = "hid_send" /\ pc = "call"
    /\ \E res \in WriteResults(handle) : hid_send(data, res) /\ result' = res
    /\ pc' = "done"
    /\ UNCHANGED <<script, argv, descs, path, handle, live, closed, nopen, data,
                   result2, outcome, configs, slot, after>>

SpecFrame == FrameInit /\ [][frame_call]_vars

FindInit ==
    /\ script = "find_device"
    /\ argv = NoArgs
    /\ descs \in AllDescs
    /\ pc = "call"
    /\ path = None
    /\ handle = NULL
    /\ live = {}
    /\ closed = <<>>
    /\ nopen = 0
    /\ opLog = <<>>
    /\ data = <<>>
    /\ result = 0
    /\ result2 = 0
    /\ outcome = "none"
    /\ configs = <<>>
    /\ slot = 0
    /\ after = FALSE

\* path = find_device()
find_call ==
    /\ script = "find_device" /\ pc = "call"
    /\ path' = find_device(descs)
    /\ pc' = "done"
    /\ UNCHANGED <<script, argv, descs, handle, live, closed, nopen, opLog, data,
                   result, result2, outcome, configs, slot, after>>

SpecFind == FindInit /\ [][find_call]_vars

(***************************************************************************)
(* Properties.                                                             *)
(***************************************************************************)
IsWrite(e) == e.op = "write"
IsRead(e) == e.op = "read"
IsSleep(e, ms) == e.op = "sleep" /\ e.res = ms

Writes(log) == {i \in 1..Len(log) : IsWrite(log[i])}
Reads(log) == {i \in 1..Len(log) : IsRead(log[i])}

\* log[k..k+4] is one double send: write, 20 ms, 100 ms, the same write, 20 ms
DoubleSend(log, k) ==
    /\ Len(log) >= k + 4
    /\ IsWrite(log[k]) /\ IsSleep(log[k + 1], SLEEP_SEND)
    /\ IsSleep(log[k + 2], SLEEP_SETTLE)
    /\ IsWrite(log[k + 3]) /\ IsSleep(log[k + 4], SLEEP_SEND)
    /\ log[k + 3].report = log[k].report

\* the key-program command of this run reaches hid_send
KeyCommandIssued == argv.mode = "key" \/ keycodes(argv.text) # <<>>

\* C1: every command that runs to its end wrote the same report exactly twice,
\* with the 20 ms sleep after each write and the 100 ms sleep between the two:
\* mode select at its return, colour set (after the custom-mode select and main's
\* pause) at its return, key program when main goes on to close the handle.  A
\* macro with no keycode issues no command and writes nothing.
C1_DoubleSend ==
    /\ (script = "led" /\ pc = "rgb_return")
         => Len(opLog) = 5 /\ DoubleSend(opLog, 1)
    /\ (script = "led" /\ pc = "color_return")
         => /\ Len(opLog) = 11
            /\ DoubleSend(opLog, 1)
            /\ IsSleep(opLog[6], SLEEP_SETTLE)
            /\ DoubleSend(opLog, 7)
    /\ (script = "led" /\ pc \in {"close", "done"})
         => Cardinality(Writes(opLog)) \in {0, 2, 4}
    /\ (script = "key" /\ pc = "close2")
         => IF KeyCommandIssued
            THEN Len(opLog) = 5 /\ DoubleSend(opLog, 1)
            ELSE Writes(opLog) = {}

C1_Witness ==
    /\ script = "key" /\ pc = "close2" /\ argv.mode = "string"
    /\ Cardinality(Writes(opLog)) = 2
    /\ opLog[1].res > 0 /\ opLog[4].res > 0

\* C2: the report hid_send writes is 64 bytes, byte 0 is 53, the next
\* min(53, len(body)) bytes are the body's first bytes, the rest is zero; a
\* longer body is cut, and the write is made all the same.
C2_Framing ==
    (script = "hid_send" /\ pc = "done")
      => /\ Len(opLog) = 2 /\ IsWrite(opLog[1])
         /\ LET r == opLog[1].report
                n == Min(DATA_LEN, Len(data))
            IN  /\ Len(r) = 64
                /\ r[1] = 53
                /\ \A i \in 1..n : r[i + 1] = data[i]
                /\ \A i \in (n + 2)..64 : r[i] = 0

C2_Witness ==
    /\ script = "hid_send" /\ pc = "done"
    /\ Len(data) > DATA_LEN
    /\ opLog[1].report[DATA_LEN + 1] = data[DATA_LEN]

\* C3: whenever a write of a command returned zero or less, the outcome main
\* reports for the operation is a failure (checked when the operation is over:
\* led_control.py at its end, program_key.py when it closes the handle it
\* programmed through).
C3_FailureReported ==
    ((script = "led" /\ pc = "done") \/ (script = "key" /\ pc = "reopen2"))
      => ((\E i \in Writes(opLog) : opLog[i].res <= 0) => outcome = "failed")

\* C4: the colour command body on the wire is [0x70, g, r, b].
C4_ColorOrderGRB ==
    (script = "led" /\ argv.arg = "color")
      => \A i \in Writes(opLog) :
           opLog[i].report[2] = CMD_COLOR
             => /\ opLog[i].report[3] = argv.color[2]
                /\ opLog[i].report[4] = argv.color[1]
                /\ opLog[i].report[5] = argv.color[3]

\* C5: every report written, the read command included, is 64 bytes with
\* byte 0 equal to 53 (the body starts at byte 1).
C5_EveryReportFramed ==
    \A i \in Writes(opLog) :
        Len(opLog[i].report) = 64 /\ opLog[i].report[1] = 53

\* C6: no write and no read is issued on a handle that hid_open_path
\* returned as NULL.
C6_NoTransferOnNullHandle ==
    \A i \in Writes(opLog) \cup Reads(opLog) : opLog[i].h # NULL

\* C7: read_config's result has 6 positions, position i populated exactly
\* when the i-th read returned a positive count.  (The log of a read_config
\* is its write followed by its reads: read i is opLog[i + 1].)
C7_SixPositions ==
    (script = "key" /\ pc = "rc_return")
      => /\ Cardinality(Writes(opLog)) = 1 /\ IsWrite(opLog[1])
         /\ Cardinality(Reads(opLog)) = N_SLOTS
         /\ Len(configs) = N_SLOTS
         /\ \A i \in 1..N_SLOTS :
              (opLog[i + 1].res > 0) <=> (configs[i].len > 0)

\* C8: a macro text of more than 50 keycodes is reported to the caller
\* (an error outcome, or an error result with nothing written), never
\* written with keycodes dropped and no signal.
C8_MacroTooLongReported ==
    (script = "key" /\ pc \in {"settle2", "close2"} /\ handle # NULL
       /\ Len(keycodes(argv.text)) > 50)
      => \/ outcome # "none"
         \/ (result < 0 /\ Writes(opLog) = {})

\* the keycodes of the characters of text that are in a table, in text order
RECURSIVE Resolved(_)
Resolved(text) ==
    IF text = <<>> THEN <<>>
    ELSE (IF Head(text) \in (DOMAIN KEY_CODES \cup DOMAIN UPPERCASE_KEYCODES
                               \cup DOMAIN SHIFTED_KEYCODES)
          THEN <<char_to_keycode(Head(text))>> ELSE <<>>) \o Resolved(Tail(text))

\* C9: with no resolvable character program_string returns -1 and writes
\* nothing, at the first call and at the repeated one; with at least one, the
\* unresolvable characters are skipped and the command is sent (the report
\* carries the header and the resolved keycodes, as many as fit).
C9_EmptyMacro ==
    (script = "key" /\ argv.mode = "string" /\ pc \in {"settle2", "string2", "close2"})
      => IF \A i \in 1..Len(argv.text) : char_to_keycode(argv.text[i]) = None
         THEN result = 0 - 1 /\ Writes(opLog) = {}
         ELSE /\ Cardinality(Writes(opLog)) = (IF pc = "close2" THEN 2 ELSE 1)
              /\ \A i \in Writes(opLog) :
                   LET sent == <<argv.key_num, MODE_STRING, 0>> \o Resolved(argv.text)
                   IN  \A j \in 1..Min(Len(sent), DATA_LEN) :
                          opLog[i].report[j + 1] = sent[j]

C9_Witness ==
    /\ script = "key" /\ argv.mode = "string" /\ pc = "close2"
    /\ argv.text # <<>>
    /\ \A i \in 1..Len(argv.text) : char_to_keycode(argv.text[i]) = None
    /\ handle # NULL

\* C10: find_device returns the path of the first descriptor whose usage page
\* is 0xFF00, wherever it is, and None exactly when there is none.
C10_FirstVendorInterface ==
    (script = "find_device" /\ pc = "done")
      => LET vendor == {i \in 1..Len(descs) : descs[i].usage_page = 65280}
         IN  IF vendor = {}
             THEN path = None
             ELSE /\ path # None
                  /\ \E i \in vendor : /\ path = descs[i].path
                                       /\ \A j \in vendor : i <= j

C10_Witness ==
    /\ script = "find_device" /\ pc = "done"
    /\ Len(descs) >= 3
    /\ descs[1].usage_page # 65280 /\ descs[2].usage_page # 65280
    /\ descs[3].usage_page = 65280
    /\ path = descs[3].path

\* main is over: it returned, or an exception left it
MainEnded == pc \in {"done", "raised"}

====
